---- MODULE Spec2Model ----
(***************************************************************************)
(* Model of pkg/openai/client.go: the caching, streaming completion client *)
(* (Client.Call, Client.fromCache, Client.call, Client.store, toMessages,  *)
(* appendMessage).  Go strings are TLA+ strings ("" is the empty string,   *)
(* \o is +).  A nil *int is NoIndex; a nil *CompletionToolCall is          *)
(* HasToolCall = FALSE.                                                    *)
(***************************************************************************)
EXTENDS Integers, Sequences, FiniteSets, TLC

(***************************************************************************)
(* Bounds of the model.                                                    *)
(***************************************************************************)
\* Most chunks one live stream delivers before end-of-stream.
MaxChunks == 2
\* Cap of the process-wide completionID counter (calls that get submitted).
MaxCalls == 3
\* Most chunks of a live stream when the calls run one after the other.
MaxSeqChunks == 1
\* Most chunks of the live stream whose fold is examined.
MaxFold == 3
\* Most messages of a request whose compilation is examined.
MaxMessages == 3

\* The goroutines that may be inside Client.Call at the same time.
Callers == {"a", "b"}

\* nil for *int (ToolCall.Index)
NoIndex == -1

(***************************************************************************)
(* types.CompletionMessage and its parts                                   *)
(***************************************************************************)
ZeroToolCall == [Index |-> NoIndex, ID |-> "", Name |-> "", Arguments |-> ""]

TextPart(s) == [Text |-> s, HasToolCall |-> FALSE, ToolCall |-> ZeroToolCall]

ToolPart(tc) == [Text |-> "", HasToolCall |-> TRUE, ToolCall |-> tc]

\* types.Text(s): a content list of one text part
Text(s) == << TextPart(s) >>

\* types.CompletionMessage{}
EmptyMessage == [Role |-> "", Content |-> << >>]

(***************************************************************************)
(* override, appendMessage                                                 *)
(***************************************************************************)
override(left, right) == IF right # "" THEN right ELSE left

\* variant: every placeholder records the index of the fragment
RECURSIVE GrowToSameIndex(_, _)
GrowToSameIndex(content, idx) ==
    IF Len(content) - 1 < idx
    THEN GrowToSameIndex(Append(content, ToolPart([ZeroToolCall EXCEPT !.Index = idx])),
                         idx)
    ELSE content

\* client.go 410-416: append placeholders until position idx exists
RECURSIVE GrowTo(_, _)
GrowTo(content, idx) ==
    IF Len(content) - 1 < idx
    THEN GrowTo(Append(content,
                       ToolPart([ZeroToolCall EXCEPT !.Index = Len(content)])),
                idx)
    ELSE content

\* client.go 406-429: one tool-call fragment applied to the content list
ApplyTool(content, tool) ==
    LET idx   == IF tool.Index # NoIndex THEN tool.Index ELSE 0
        grown == GrowTo(content, idx)
        tc    == grown[idx + 1]
        tc0   == IF tc.HasToolCall THEN tc.ToolCall ELSE ZeroToolCall
        tc1   == [Index     |-> IF tool.Index # NoIndex THEN tool.Index ELSE tc0.Index,
                  ID        |-> override(tc0.ID, tool.ID),
                  Name      |-> tc0.Name \o tool.Name,
                  Arguments |-> tc0.Arguments \o tool.Arguments]
    IN  [grown EXCEPT ![idx + 1] = [tc EXCEPT !.HasToolCall = TRUE, !.ToolCall = tc1]]

RECURSIVE ApplyTools(_, _)
ApplyTools(content, tools) ==
    IF tools = << >> THEN content
    ELSE ApplyTools(ApplyTool(content, Head(tools)), Tail(tools))

\* positions of the parts that are not tool calls
TextSlots(content) == {i \in 1..Len(content) : ~content[i].HasToolCall}

\* client.go 432-449: delta text goes to the first part that is no tool call
ApplyText(content, text) ==
    IF text = "" THEN content
    ELSE IF TextSlots(content) # {}
         THEN LET i == CHOOSE j \in TextSlots(content) :
                          \A k \in TextSlots(content) : j <= k
              IN  [content EXCEPT ![i] = TextPart(content[i].Text \o text)]
         ELSE Append(content, TextPart(text))

appendMessage(msg, response) ==
    IF Len(response.Choices) = 0 THEN msg
    ELSE LET delta == response.Choices[1].Delta
         IN  [Role    |-> override(msg.Role, delta.Role),
              Content |-> ApplyText(ApplyTools(msg.Content, delta.ToolCalls),
                                    delta.Content)]

\* variant: the one-pass fold forgets what it has accumulated
RECURSIVE FoldFromRestart(_, _)
FoldFromRestart(msg, responses) ==
    IF responses = << >> THEN msg
    ELSE FoldFromRestart(appendMessage(EmptyMessage, Head(responses)), Tail(responses))

\* client.go 375-378: the one-pass fold of a chunk sequence
RECURSIVE FoldFrom(_, _)
FoldFrom(msg, responses) ==
    IF responses = << >> THEN msg
    ELSE FoldFrom(appendMessage(msg, Head(responses)), Tail(responses))

FoldAll(responses) == FoldFrom(EmptyMessage, responses)

(***************************************************************************)
(* hash.ID, hash.Encode, hash.Seed: deterministic digests, modelled as     *)
(* injective renderings of their arguments.                                *)
(***************************************************************************)
\* hash.ID(a, b)
HashID(a, b) == "ID(" \o a \o "|" \o b \o ")"

\* hash.ID(name, arguments)[:8]
HashID8(a, b) == "#" \o a \o "|" \o b

\* variant: the id is derived from the function name alone
BackfillPartNameOnly(part) ==
    IF part.HasToolCall /\ part.ToolCall.ID = ""
    THEN [part EXCEPT !.ToolCall.ID = "call_" \o HashID8(part.ToolCall.Name, "")]
    ELSE part

\* client.go 380-385: tool-call id backfill
BackfillPart(part) ==
    IF part.HasToolCall /\ part.ToolCall.ID = ""
    THEN [part EXCEPT !.ToolCall.ID =
              "call_" \o HashID8(part.ToolCall.Name, part.ToolCall.Arguments)]
    ELSE part

Backfill(msg) ==
    [msg EXCEPT !.Content = [i \in 1..Len(msg.Content) |-> BackfillPart(msg.Content[i])]]

(***************************************************************************)
(* toMessages: types.CompletionRequest -> []openai.ChatCompletionMessage   *)
(***************************************************************************)
\* system.InternalSystemPrompt
InternalSystemPrompt == "ISP"

\* a message of the abstract request; ToolCall is the *CompletionToolCall of
\* a tool-result message
InMessage(role, content) ==
    [Role |-> role, Content |-> content, HasToolCall |-> FALSE,
     ToolCall |-> ZeroToolCall]

\* strings.Join(elems, sep)
RECURSIVE Join(_, _)
Join(elems, sep) ==
    IF elems = << >> THEN ""
    ELSE IF Len(elems) = 1 THEN elems[1]
    ELSE elems[1] \o sep \o Join(Tail(elems), sep)

\* client.go 241-254: [prompts, msgs] after the loop has run from position i;
\* panic: message.Content[0] of line 249 is out of range, the loop is left
RECURSIVE SplitSystem(_, _, _, _)
SplitSystem(messages, i, prompts, msgs) ==
    IF i > Len(messages) THEN [prompts |-> prompts, msgs |-> msgs, panic |-> FALSE]
    ELSE LET message == messages[i]
         IN  IF message.Role = "system"
             THEN IF \/ i = Len(messages)
                     \/ /\ messages[i + 1].Role # "system"
                        /\ messages[i + 1].Role # "user"
                  THEN SplitSystem(messages, i + 1, prompts,
                                   Append(msgs, [message EXCEPT !.Role = "user"]))
                  ELSE IF Len(message.Content) = 0
                       THEN [prompts |-> prompts, msgs |-> msgs, panic |-> TRUE]
                       ELSE SplitSystem(messages, i + 1,
                                        Append(prompts, message.Content[1].Text), msgs)
             ELSE SplitSystem(messages, i + 1, prompts, Append(msgs, message))

\* toToolCall
toToolCall(call) ==
    [Index |-> call.Index, ID |-> call.ID, Type |-> "function",
     Name |-> call.Name, Arguments |-> call.Arguments]

\* system.IsDefaultPrompt: no text of the model is a default-prompt document,
\* so the content is kept
DefaultPromptOf(content) == content

\* client.go 264-284: the wire message before the single-text collapse
ToChat(message) ==
    LET tcIdx  == {i \in 1..Len(message.Content) : message.Content[i].HasToolCall}
        txtIdx == {i \in 1..Len(message.Content) : message.Content[i].Text # ""}
        Pick(S, F(_)) ==
            LET RECURSIVE From(_)
                From(i) == IF i > Len(message.Content) THEN << >>
                           ELSE IF i \in S THEN << F(i) >> \o From(i + 1)
                           ELSE From(i + 1)
            IN  From(1)
        TC(i)  == toToolCall(message.Content[i].ToolCall)
        TX(i)  == message.Content[i].Text
    IN  [Role         |-> message.Role,
         Content      |-> "",
         MultiContent |-> Pick(txtIdx, TX),
         ToolCalls    |-> Pick(tcIdx, TC),
         ToolCallID   |-> IF message.HasToolCall THEN message.ToolCall.ID ELSE "",
         Name         |-> IF message.HasToolCall THEN message.ToolCall.Name ELSE ""]

\* client.go 286-289: the message is a sentinel placeholder and is dropped
IsSentinel(chat) ==
    /\ Len(chat.MultiContent) = 1
    /\ chat.MultiContent[1] \in {".", "{}"}

\* client.go 286-296: a single text part moves to the scalar Content field
Collapse(chat) ==
    IF Len(chat.MultiContent) = 1
    THEN [chat EXCEPT !.Content = DefaultPromptOf(chat.MultiContent[1]),
                      !.MultiContent = << >>]
    ELSE chat

\* client.go 263-299
RECURSIVE ToChatAll(_)
ToChatAll(msgs) ==
    IF msgs = << >> THEN << >>
    ELSE LET chat == ToChat(Head(msgs))
         IN  IF IsSentinel(chat) THEN ToChatAll(Tail(msgs))
             ELSE << Collapse(chat) >> \o ToChatAll(Tail(msgs))

\* client.go 237-239
FirstPrompts(request) ==
    IF request.InternalSystemPrompt # "false" THEN << InternalSystemPrompt >> ELSE << >>

\* toMessages does not return: the index of line 249 is out of range
toMessagesPanics(request) ==
    SplitSystem(request.Messages, 1, FirstPrompts(request), << >>).panic

\* client.go 241-261: msgs with the joined system message inserted at 0
InsertSystem(request) ==
    LET split == SplitSystem(request.Messages, 1, FirstPrompts(request), << >>)
    IN  IF Len(split.prompts) > 0
        THEN << InMessage("system", Text(Join(split.prompts, "\n"))) >> \o split.msgs
        ELSE split.msgs

toMessages(request) == ToChatAll(InsertSystem(request))

(***************************************************************************)
(* The wire request, the cache key and the seed                            *)
(***************************************************************************)
\* client.go 309-351: openai.ChatCompletionRequest built by Call; Seed is a
\* *int: << >> is nil
WireRequest(client, messageRequest) ==
    [Model       |-> IF messageRequest.Model = "" THEN client.defaultModel
                     ELSE messageRequest.Model,
     Messages    |-> toMessages(messageRequest),
     MaxTokens   |-> messageRequest.MaxTokens,
     User        |-> client.user,
     Temperature |-> IF messageRequest.Temperature = "unset" THEN "0"
                     ELSE messageRequest.Temperature,
     JSON        |-> messageRequest.JSONResponse,
     Tools       |-> messageRequest.Tools,
     Stream      |-> FALSE,
     Seed        |-> << >>]

\* Client.cacheKey: hash.Encode of the base and the whole request
cacheKey(client, request) == [base |-> client.cacheKeyBase, request |-> request]

\* client.go 182-193: tool-call ids stripped from one wire message
StripIDs(msg) ==
    [msg EXCEPT !.ToolCallID = "",
                !.ToolCalls = [i \in 1..Len(msg.ToolCalls) |->
                                   [msg.ToolCalls[i] EXCEPT !.ID = ""]]]

\* Client.seed: hash.Seed of the request with the ids stripped
seed(request) ==
    [seedOf |-> [request EXCEPT !.Messages =
                     [i \in 1..Len(request.Messages) |-> StripIDs(request.Messages[i])]]]

\* client.go 360-362
WithSeed(client, request) ==
    IF client.setSeed THEN [request EXCEPT !.Seed = << seed(request) >>]
    ELSE request

(***************************************************************************)
(* The stored value: gzip(json(responses)).  encoding/json leaves out a    *)
(* field tagged omitempty when it holds the zero value (a nil pointer, "", *)
(* an empty list) and the decoder gives an absent field its zero value.    *)
(***************************************************************************)
Field(obj, name, zero) == IF name \in DOMAIN obj THEN obj[name] ELSE zero

EncodeTool(t) ==
    LET present == {"id", "name", "arguments"} \ 
                       ( (IF t.Name = "" THEN {"name"} ELSE {})
                         \cup (IF t.Arguments = "" THEN {"arguments"} ELSE {}) )
        all     == present \cup (IF t.Index # NoIndex THEN {"index"} ELSE {})
    IN  [f \in all |-> CASE f = "index"     -> t.Index
                         [] f = "id"        -> t.ID
                         [] f = "name"      -> t.Name
                         [] f = "arguments" -> t.Arguments]

\* variant: Index decoded into an int, 0 when absent
DecodeToolIndexInt(j) ==
    [Index     |-> Field(j, "index", 0),
     ID        |-> Field(j, "id", ""),
     Name      |-> Field(j, "name", ""),
     Arguments |-> Field(j, "arguments", "")]

DecodeTool(j) ==
    [Index     |-> Field(j, "index", NoIndex),
     ID        |-> Field(j, "id", ""),
     Name      |-> Field(j, "name", ""),
     Arguments |-> Field(j, "arguments", "")]

EncodeDelta(d) ==
    LET all == (IF d.Role = "" THEN {} ELSE {"role"})
               \cup (IF d.Content = "" THEN {} ELSE {"content"})
               \cup (IF d.ToolCalls = << >> THEN {} ELSE {"tool_calls"})
    IN  [f \in all |-> CASE f = "role"       -> d.Role
                         [] f = "content"    -> d.Content
                         [] f = "tool_calls" ->
                              [i \in 1..Len(d.ToolCalls) |-> EncodeTool(d.ToolCalls[i])]]

DecodeDelta(j) ==
    LET tcs == Field(j, "tool_calls", << >>)
    IN  [Role      |-> Field(j, "role", ""),
         Content   |-> Field(j, "content", ""),
         ToolCalls |-> [i \in 1..Len(tcs) |-> DecodeTool(tcs[i])]]

EncodeChunk(r) ==
    [choices |-> [i \in 1..Len(r.Choices) |-> [delta |-> EncodeDelta(r.Choices[i].Delta)]]]

DecodeChunk(j) ==
    [Choices |-> [i \in 1..Len(j.choices) |-> [Delta |-> DecodeDelta(j.choices[i].delta)]]]

\* variant: the last response is left out
EncodeDropLast(responses) ==
    [gzip |-> TRUE,
     json |-> [i \in 1..(Len(responses) - 1) |-> EncodeChunk(responses[i])]]

\* client.go 465-473: the bytes handed to cache.Store
Encode(responses) ==
    [gzip |-> TRUE,
     json |-> [i \in 1..Len(responses) |-> EncodeChunk(responses[i])]]

\* client.go 212-216: gzip.NewReader and json Decode; ok = FALSE is the error
\* (line 216 returns result and Decode(&result) in one statement; the
\* decoded slice is the one returned, as the gc compiler orders it)
Decode(bytes) ==
    IF bytes.gzip
    THEN [ok |-> TRUE,
          result |-> [i \in 1..Len(bytes.json) |-> DecodeChunk(bytes.json[i])]]
    ELSE [ok |-> FALSE, result |-> << >>]

\* bytes that are no gzip stream (a damaged cache file)
Garbage == [gzip |-> FALSE, json |-> << >>]

(***************************************************************************)
(* Inputs: the requests callers submit and the chunks the transport sends  *)
(***************************************************************************)
BaseRequest(messages, isp) ==
    [Model |-> "", Messages |-> messages, InternalSystemPrompt |-> isp,
     MaxTokens |-> 0, Temperature |-> "unset", JSONResponse |-> FALSE,
     Tools |-> << >>, Cache |-> "unset"]

ReqHi    == BaseRequest(<< InMessage("user", Text("hi")) >>, "false")
ReqSys   == BaseRequest(<< InMessage("system", Text("be terse")),
                           InMessage("user", Text("2+2?")) >>, "unset")
\* compiles to no message at all: its only message is a sentinel
ReqEmpty == BaseRequest(<< InMessage("tool", Text("{}")) >>, "false")

Requests == {ReqHi, ReqSys, ReqEmpty}

\* the requests of the callers that call one after the other
SeqRequests == {ReqHi, ReqEmpty}

\* the messages of the requests whose compilation is examined: the roles,
\* with a text, a sentinel text, no content at all, a tool call beside a
\* sentinel text
MsgRoles == {"system", "user", "assistant"}

MsgContents ==
    { Text("a"), Text("{}"), << >>,
      << ToolPart([Index |-> 0, ID |-> "id1", Name |-> "f", Arguments |-> "{}"]),
         TextPart("{}") >> }

MsgPool == {InMessage(role, content) : role \in MsgRoles, content \in MsgContents}

MsgRequests ==
    {BaseRequest(ms, isp) :
         ms \in UNION {[1..n -> MsgPool] : n \in 0..MaxMessages},
         isp \in {"false", "unset"}}

\* *bool of CompletionRequest.Cache
CacheFlags == {"unset", "true", "false"}

Frag(index, id, name, arguments) ==
    [Index |-> index, ID |-> id, Name |-> name, Arguments |-> arguments]

Chunk(role, content, toolCalls) ==
    [Choices |-> << [Delta |-> [Role |-> role, Content |-> content,
                                ToolCalls |-> toolCalls]] >>]

ChunkText   == Chunk("assistant", "4", << >>)
ChunkTool   == Chunk("", "", << Frag(NoIndex, "", "f", "{") >>)
ChunkToolID == Chunk("", "", << Frag(1, "id1", "g", "") >>)
ChunkArgs   == Chunk("", "", << Frag(1, "", "", "}") >>)
ChunkNone   == [Choices |-> << >>]

\* one chunk with a role, text, a tool call without id and one with an id
ChunkMix    == Chunk("assistant", "4", << Frag(NoIndex, "", "f", "{"),
                                          Frag(1, "id1", "g", "}") >>)

\* what the transport may deliver when calls run concurrently
Pool == {ChunkMix}

\* what the transport may deliver when calls run one after the other
SeqPool == {ChunkMix}

\* a fragment for position 2 when the positions before it may not exist yet
ChunkGap    == Chunk("", "", << Frag(2, "", "h", "") >>)

\* what the transport may deliver to the Call whose fold is examined
FoldPool == {ChunkText, ChunkTool, ChunkToolID, ChunkArgs, ChunkNone, ChunkGap, ChunkMix}

\* what the transport may deliver to the Call whose termination is checked
DrainPool == {ChunkText, ChunkTool}

(***************************************************************************)
(* State                                                                   *)
(***************************************************************************)
VARIABLES
    options,        \* the Options the client was made from
    client,         \* the Client: invalidAuth, setSeed, defaultModel, user, cacheKeyBase
    completionID,   \* the process-wide counter
    cache,          \* the cache store: key -> stored bytes
    writer,         \* history: key -> id and chunks of the call that stored last
    pc,             \* where each caller is inside Call
    arg,            \* ctx (noCache, cancelled) and messageRequest of the call
    id,             \* Call's id
    request,        \* Call's request
    response,       \* Call's response / call's responses
    partialMessage, \* call's partialMessage
    result,         \* the message Call returns
    err,            \* the error Call returns ("" is nil)
    cacheResponse,  \* Call's cacheResponse
    sink,           \* the statuses pushed to the status channel, in order
    ext,            \* history: the cache and transport operations of the call
    got,            \* history: id and chunks of the call whose entry Get returned
    after,          \* history: the callers whose Call had returned when this one began
    receiving,      \* the caller's consumer is blocked in a receive from the status channel
    seen            \* what the consumer read through PartialResponse: chunk number, message

vars == << options, client, completionID, cache, writer, pc, arg, id, request, response,
           partialMessage, result, err, cacheResponse, sink, ext, got, after, receiving, seen >>

NoArg == [noCache |-> FALSE, cancelled |-> FALSE, req |-> ReqEmpty]

NoRequest == WireRequest([defaultModel |-> "", user |-> ""], ReqEmpty)

\* types.CompletionStatus; a nil pointer field is << >>
Status(cid, req, partial, chunks, resp, cached) ==
    [CompletionID |-> cid, Request |-> req, PartialResponse |-> partial,
     Chunks |-> chunks, Response |-> resp, Cached |-> cached]

Submitted(cid, req) == Status(cid, << req >>, << >>, << >>, EmptyMessage, FALSE)

Partial(cid, msg) == Status(cid, << >>, << msg >>, << >>, EmptyMessage, FALSE)

FinalStatus(cid, chunks, resp, cached) == Status(cid, << >>, << >>, chunks, resp, cached)

Waiting == [Role |-> "assistant", Content |-> Text("Waiting for model response...")]

\* variant: the request's Cache flag is not looked at
LookupIgnoringFlag(a) == ~a.noCache

\* client.go 198-203: fromCache goes on to cache.Get: cache.IsNoCache(ctx) is
\* false and the request's Cache is nil or true
Lookup(a) == ~a.noCache /\ a.req.Cache # "false"

\* no entry was read
NoEntry == [id |-> "", chunks |-> << >>]

\* Options after complete: the ways the client is configured
Opt(apiKey, baseURL, setSeed) ==
    [APIKey |-> apiKey, BaseURL |-> baseURL, SetSeed |-> setSeed,
     DefaultModel |-> "gpt-4-turbo-preview", User |-> "", CacheKey |-> ""]

ClientOptions ==
    { Opt("sk", "", FALSE), Opt("", "http://llm", TRUE), Opt("", "", FALSE) }

\* variant: the key alone decides
NewClientKeyOnly(opt) ==
    [defaultModel |-> opt.DefaultModel,
     cacheKeyBase |-> IF opt.CacheKey = "" THEN HashID(opt.APIKey, opt.BaseURL)
                      ELSE opt.CacheKey,
     invalidAuth  |-> opt.APIKey = "",
     setSeed      |-> opt.SetSeed,
     user         |-> opt.User]

\* client.go 119-132: NewClient
NewClient(opt) ==
    [defaultModel |-> opt.DefaultModel,
     cacheKeyBase |-> IF opt.CacheKey = "" THEN HashID(opt.APIKey, opt.BaseURL)
                      ELSE opt.CacheKey,
     invalidAuth  |-> opt.APIKey = "" /\ opt.BaseURL = "",
     setSeed      |-> opt.SetSeed,
     user         |-> opt.User]

Init ==
    /\ options \in ClientOptions
    /\ client = NewClient(options)
    /\ completionID = 0
    /\ cache = << >>
    /\ writer = << >>
    /\ pc = [c \in Callers |-> "idle"]
    /\ arg = [c \in Callers |-> NoArg]
    /\ id = [c \in Callers |-> ""]
    /\ request = [c \in Callers |-> NoRequest]
    /\ response = [c \in Callers |-> << >>]
    /\ partialMessage = [c \in Callers |-> EmptyMessage]
    /\ result = [c \in Callers |-> EmptyMessage]
    /\ err = [c \in Callers |-> ""]
    /\ cacheResponse = [c \in Callers |-> FALSE]
    /\ sink = [c \in Callers |-> << >>]
    /\ ext = [c \in Callers |-> << >>]
    /\ got = [c \in Callers |-> NoEntry]
    /\ after = [c \in Callers |-> {}]
    /\ receiving = [c \in Callers |-> FALSE]
    /\ seen = [c \in Callers |-> {}]

\* variant: no check of the credentials
ValidAuthSkipped(cl) == ""

\* cache.Client.Get: (bytes, found) of an atomic read of the store
CacheGet(kv, key) ==
    IF key \in DOMAIN kv THEN [found |-> TRUE, bytes |-> kv[key]]
    ELSE [found |-> FALSE, bytes |-> Garbage]

\* cache.Client.Store: the store after a whole-value write
CacheStore(kv, key, bytes) == (key :> bytes) @@ kv

\* Client.ValidAuth: the error, "" for nil
ValidAuth(cl) == IF cl.invalidAuth THEN "auth" ELSE ""

\* variant: the key taken after request.Stream = true
StoreKeyAfterStream(cl, req) == cacheKey(cl, [req EXCEPT !.Stream = TRUE])

\* client.go 478-479: call takes the key before it sets request.Stream
StoreKey(cl, req) == cacheKey(cl, req)

\* Call returns (nil, e)
Fail(c, e) ==
    /\ pc' = [pc EXCEPT ![c] = "done"]
    /\ err' = [err EXCEPT ![c] = e]

(***************************************************************************)
(* Client.Call, lines 304-357: validation, compilation, Submitted          *)
(***************************************************************************)
\* variant: the counter is read and the increment is lost
AddInt64Lost(addr, delta) == addr

\* atomic.AddInt64(&addr, delta): the new value, in one indivisible step
AddInt64(addr, delta) == addr + delta

CallBegin(c, r, flag, nc) ==
    LET messageRequest == [r EXCEPT !.Cache = flag]
        wire == WireRequest(client, messageRequest)
        next == AddInt64(completionID, 1)
    IN /\ pc[c] = "idle"
        /\ arg' = [arg EXCEPT ![c] = [noCache |-> nc, cancelled |-> FALSE,
                                      req |-> messageRequest]]
        /\ after' = [after EXCEPT ![c] = {d \in Callers : pc[d] = "done"}]
        /\ \/ /\ ValidAuth(client) # ""
              /\ Fail(c, ValidAuth(client))
              /\ UNCHANGED << completionID, id, request, sink >>
           \/ /\ ValidAuth(client) = ""
              /\ toMessagesPanics(messageRequest)
              /\ pc' = [pc EXCEPT ![c] = "panic"]
              /\ UNCHANGED << completionID, id, request, sink, err >>
           \/ /\ ValidAuth(client) = ""
              /\ ~toMessagesPanics(messageRequest)
              /\ Len(wire.Messages) = 0
              /\ Fail(c, "malformed")
              /\ UNCHANGED << completionID, id, request, sink >>
           \/ /\ ValidAuth(client) = ""
              /\ ~toMessagesPanics(messageRequest)
              /\ Len(wire.Messages) # 0
              /\ completionID < MaxCalls
              /\ completionID' = next
              /\ id' = [id EXCEPT ![c] = ToString(next)]
              /\ request' = [request EXCEPT ![c] = wire]
              /\ sink' = [sink EXCEPT ![c] = Append(@, Submitted(ToString(next), wire))]
              /\ pc' = [pc EXCEPT ![c] = "fromCache"]
              /\ UNCHANGED err
        /\ UNCHANGED << options, client, cache, writer, response, partialMessage, result,
                        cacheResponse, ext, got >>

(***************************************************************************)
(* Client.Call, lines 359-373, with Client.fromCache                       *)
(***************************************************************************)
\* history: operation op of the cache store or the transport, and how it ended
Logged(c, op) == ext' = [ext EXCEPT ![c] = Append(@, op)]

\* variant: a failed cache.Get is taken for a miss
GetFailedFallback(c) ==
    /\ Logged(c, "Get.err")
    /\ pc' = [pc EXCEPT ![c] = "call"]
    /\ UNCHANGED << err, response, cacheResponse, got >>

\* lines 205-207 and 364-365: cache.Get fails and so does Call
GetFailed(c) ==
    /\ Logged(c, "Get.err")
    /\ Fail(c, "cacheGet")
    /\ UNCHANGED << response, cacheResponse, got >>

CallFromCache(c) ==
    LET seeded == WithSeed(client, request[c])
        key    == cacheKey(client, seeded)
    IN  /\ pc[c] = "fromCache"
        /\ request' = [request EXCEPT ![c] = seeded]
        /\ \/ /\ ~Lookup(arg[c])
              /\ pc' = [pc EXCEPT ![c] = "call"]
              /\ UNCHANGED << err, response, cacheResponse, ext, got >>
           \/ /\ Lookup(arg[c])
              /\ GetFailed(c)
           \/ /\ Lookup(arg[c])
              /\ ~CacheGet(cache, key).found
              /\ Logged(c, "Get.miss")
              /\ pc' = [pc EXCEPT ![c] = "call"]
              /\ UNCHANGED << err, response, cacheResponse, got >>
           \/ /\ Lookup(arg[c])
              /\ CacheGet(cache, key).found
              /\ \E bytes \in {CacheGet(cache, key).bytes, Garbage} :
                   LET dec == Decode(bytes)
                   IN  IF dec.ok
                       THEN /\ Logged(c, "Get.hit")
                            /\ response' = [response EXCEPT ![c] = dec.result]
                            /\ cacheResponse' = [cacheResponse EXCEPT ![c] = TRUE]
                            /\ got' = [got EXCEPT ![c] = writer[key]]
                            /\ pc' = [pc EXCEPT ![c] = "final"]
                            /\ UNCHANGED err
                       ELSE /\ Logged(c, "Get.bad")
                            /\ Fail(c, "decode")
                            /\ UNCHANGED << response, cacheResponse, got >>
        /\ UNCHANGED << options, client, completionID, cache, writer, arg, id, partialMessage,
                        result, sink, after >>

(***************************************************************************)
(* Client.call                                                             *)
(***************************************************************************)
\* the transport under ctx: a stream is opened and read only while ctx is
\* not cancelled; once it is, the open or the read in progress fails
StreamAlive(a) == ~a.cancelled

\* lines 478-487: the "waiting" placeholder
CallWaiting(c) ==
    /\ pc[c] = "call"
    /\ sink' = [sink EXCEPT ![c] = Append(@, Partial(id[c], Waiting))]
    /\ pc' = [pc EXCEPT ![c] = "open"]
    /\ UNCHANGED << options, client, completionID, cache, writer, arg, id, request, response,
                    partialMessage, result, err, cacheResponse, ext, got, after >>

\* lines 490-496: CreateChatCompletionStream
CallOpen(c) ==
    /\ pc[c] = "open"
    /\ \/ /\ StreamAlive(arg[c])
          /\ Logged(c, "Open.ok")
          /\ pc' = [pc EXCEPT ![c] = "recv"]
          /\ UNCHANGED err
       \/ /\ Logged(c, "Open.err")
          /\ Fail(c, "open")
    /\ UNCHANGED << options, client, completionID, cache, writer, arg, id, request, response,
                    partialMessage, result, cacheResponse, sink, got, after >>

\* variant: the status is pushed before the chunk is folded
CallRecvStale(c, chunk, max) ==
    /\ pc[c] = "recv"
    /\ Len(response[c]) < max
    /\ partialMessage' = [partialMessage EXCEPT ![c] = appendMessage(@, chunk)]
    /\ sink' = [sink EXCEPT ![c] = Append(@, Partial(id[c], partialMessage[c]))]
    /\ response' = [response EXCEPT ![c] = Append(@, chunk)]
    /\ UNCHANGED << options, client, completionID, cache, writer, pc, arg, id, request,
                    result, err, cacheResponse, ext, got, after >>

\* lines 498, 504-514: stream.Recv delivers a chunk
CallRecv(c, chunk, max) ==
    LET folded == appendMessage(partialMessage[c], chunk)
    IN  /\ pc[c] = "recv"
        /\ StreamAlive(arg[c])
        /\ Len(response[c]) < max
        /\ partialMessage' = [partialMessage EXCEPT ![c] = folded]
        /\ sink' = [sink EXCEPT ![c] = Append(@, Partial(id[c], folded))]
        /\ response' = [response EXCEPT ![c] = Append(@, chunk)]
        /\ UNCHANGED << options, client, completionID, cache, writer, pc, arg, id, request,
                        result, err, cacheResponse, ext, got, after >>

\* variant: the chunks received before the failure are stored
CallRecvErrorStoring(c) ==
    /\ pc[c] = "recv"
    /\ Fail(c, "recv")
    /\ response' = [response EXCEPT ![c] = << >>]
    /\ cache' = CacheStore(cache, StoreKey(client, request[c]), Encode(response[c]))
    /\ UNCHANGED << options, client, completionID, writer, arg, id, request,
                    partialMessage, result, cacheResponse, sink, ext, got, after >>

\* lines 498, 501-503: stream.Recv fails
CallRecvError(c) ==
    /\ pc[c] = "recv"
    /\ Fail(c, "recv")
    /\ response' = [response EXCEPT ![c] = << >>]
    /\ UNCHANGED << options, client, completionID, cache, writer, arg, id, request,
                    partialMessage, result, cacheResponse, sink, ext, got, after >>

\* lines 498-500 with Client.store: end of stream
CallEOF(c) ==
    LET key == StoreKey(client, request[c])
    IN  /\ pc[c] = "recv"
        /\ StreamAlive(arg[c])
        /\ \/ /\ arg[c].noCache
              /\ pc' = [pc EXCEPT ![c] = "final"]
              /\ UNCHANGED << cache, writer, err, ext >>
           \/ /\ ~arg[c].noCache
              /\ Logged(c, "Store.ok")
              /\ cache' = CacheStore(cache, key, Encode(response[c]))
              /\ writer' = (key :> [id |-> id[c], chunks |-> response[c]]) @@ writer
              /\ pc' = [pc EXCEPT ![c] = "final"]
              /\ UNCHANGED err
           \/ /\ ~arg[c].noCache
              /\ Logged(c, "Store.err")
              /\ Fail(c, "cacheStore")
              /\ UNCHANGED << cache, writer >>
        /\ UNCHANGED << options, client, completionID, arg, id, request, response,
                        partialMessage, result, cacheResponse, sink, got, after >>

(***************************************************************************)
(* Client.Call, lines 375-394: fold, backfill, Final                       *)
(***************************************************************************)
\* variant: the response is stored again on the way out, also after a hit
CallFinalStoring(c) ==
    LET folded == Backfill(FoldAll(response[c]))
        key    == StoreKey(client, request[c])
    IN  /\ pc[c] = "final"
        /\ result' = [result EXCEPT ![c] = folded]
        /\ sink' = [sink EXCEPT ![c] =
                       Append(@, FinalStatus(id[c], response[c], folded, cacheResponse[c]))]
        /\ pc' = [pc EXCEPT ![c] = "done"]
        /\ cache' = IF arg[c].noCache THEN cache
                    ELSE CacheStore(cache, key, Encode(response[c]))
        /\ writer' = IF arg[c].noCache THEN writer
                     ELSE (key :> [id |-> id[c], chunks |-> response[c]]) @@ writer
        /\ UNCHANGED << options, client, completionID, arg, id, request, response,
                        partialMessage, err, cacheResponse, ext, got, after >>

\* variant: Call returns and leaves the Final status unpushed
CallFinalUnpushed(c) ==
    LET folded == Backfill(FoldAll(response[c]))
    IN  /\ pc[c] = "final"
        /\ result' = [result EXCEPT ![c] = folded]
        /\ pc' = [pc EXCEPT ![c] = "done"]
        /\ UNCHANGED << options, client, completionID, cache, writer, arg, id, request, response,
                        partialMessage, err, cacheResponse, sink, ext, got, after >>

CallFinal(c) ==
    LET folded == Backfill(FoldAll(response[c]))
    IN  /\ pc[c] = "final"
        /\ result' = [result EXCEPT ![c] = folded]
        /\ sink' = [sink EXCEPT ![c] =
                       Append(@, FinalStatus(id[c], response[c], folded, cacheResponse[c]))]
        /\ pc' = [pc EXCEPT ![c] = "done"]
        /\ UNCHANGED << options, client, completionID, cache, writer, arg, id, request, response,
                        partialMessage, err, cacheResponse, ext, got, after >>

\* the caller has taken Call's results and may call again
Return(c) ==
    /\ pc[c] = "done"
    /\ pc' = [pc EXCEPT ![c] = "idle"]
    /\ arg' = [arg EXCEPT ![c] = NoArg]
    /\ id' = [id EXCEPT ![c] = ""]
    /\ request' = [request EXCEPT ![c] = NoRequest]
    /\ response' = [response EXCEPT ![c] = << >>]
    /\ partialMessage' = [partialMessage EXCEPT ![c] = EmptyMessage]
    /\ result' = [result EXCEPT ![c] = EmptyMessage]
    /\ err' = [err EXCEPT ![c] = ""]
    /\ cacheResponse' = [cacheResponse EXCEPT ![c] = FALSE]
    /\ sink' = [sink EXCEPT ![c] = << >>]
    /\ ext' = [ext EXCEPT ![c] = << >>]
    /\ got' = [got EXCEPT ![c] = NoEntry]
    /\ after' = [d \in Callers |-> IF d = c THEN {} ELSE after[d] \ {c}]
    /\ UNCHANGED << options, client, completionID, cache, writer >>

\* The callers run concurrently, each making one Call; the status channel
\* takes every status at once.
\* a step of Call seen without the consumer of its status channel
ConsumerIdle == UNCHANGED << receiving, seen >>

Next ==
    \E c \in Callers :
        \/ \E r \in Requests, flag \in CacheFlags, nc \in BOOLEAN :
               CallBegin(c, r, flag, nc) /\ ConsumerIdle
        \/ CallFromCache(c) /\ ConsumerIdle
        \/ CallWaiting(c) /\ ConsumerIdle
        \/ CallOpen(c) /\ ConsumerIdle
        \/ \E chunk \in Pool : CallRecv(c, chunk, MaxChunks) /\ ConsumerIdle
        \/ CallRecvError(c) /\ ConsumerIdle
        \/ CallEOF(c) /\ ConsumerIdle
        \/ CallFinal(c) /\ ConsumerIdle

Spec == Init /\ [][Next]_vars

\* One Call at a time, one after the other, the callers calling again and
\* again; the transport sends any chunk of SeqPool.
NextSeq ==
    \E c \in Callers :
        \/ /\ \A d \in Callers : pc[d] \in {"idle", "done"}
           /\ \E r \in SeqRequests, flag \in CacheFlags, nc \in BOOLEAN :
                  CallBegin(c, r, flag, nc)
           /\ ConsumerIdle
        \/ CallFromCache(c) /\ ConsumerIdle
        \/ CallWaiting(c) /\ ConsumerIdle
        \/ CallOpen(c) /\ ConsumerIdle
        \/ \E chunk \in SeqPool : CallRecv(c, chunk, MaxSeqChunks) /\ ConsumerIdle
        \/ CallRecvError(c) /\ ConsumerIdle
        \/ CallEOF(c) /\ ConsumerIdle
        \/ CallFinal(c) /\ ConsumerIdle
        \/ Return(c) /\ ConsumerIdle

SpecSeq == Init /\ [][NextSeq]_vars

\* NewClient called again with the same Options (the same Cache, API key,
\* base URL: the same cacheKeyBase) but the other SetSeed; the callers go on
\* with the new Client
NewClientSameCache ==
    /\ \A d \in Callers : pc[d] \in {"idle", "done"}
    /\ options' = [options EXCEPT !.SetSeed = ~options.SetSeed]
    /\ client' = NewClient(options')
    /\ UNCHANGED << completionID, cache, writer, pc, arg, id, request, response,
                    partialMessage, result, err, cacheResponse, sink, ext, got, after >>

\* One Call at a time on Clients that share the cache store and the
\* identity and differ in SetSeed.
NextSeed ==
    \/ \E c \in Callers :
           \/ /\ \A d \in Callers : pc[d] \in {"idle", "done"}
              /\ \E r \in SeqRequests, nc \in BOOLEAN :
                     CallBegin(c, r, "unset", nc)
              /\ ConsumerIdle
           \/ CallFromCache(c) /\ ConsumerIdle
           \/ CallWaiting(c) /\ ConsumerIdle
           \/ CallOpen(c) /\ ConsumerIdle
           \/ \E chunk \in SeqPool : CallRecv(c, chunk, MaxSeqChunks) /\ ConsumerIdle
           \/ CallRecvError(c) /\ ConsumerIdle
           \/ CallEOF(c) /\ ConsumerIdle
           \/ CallFinal(c) /\ ConsumerIdle
           \/ Return(c) /\ ConsumerIdle
    \/ NewClientSameCache /\ ConsumerIdle

SpecSeed == Init /\ [][NextSeed]_vars

\* the caller cancels ctx while its Call is in progress
Cancel(c) ==
    /\ pc[c] \notin {"idle", "done"}
    /\ ~arg[c].cancelled
    /\ arg' = [arg EXCEPT ![c].cancelled = TRUE]
    /\ UNCHANGED << options, client, completionID, cache, writer, pc, id, request, response,
                    partialMessage, result, err, cacheResponse, sink, ext, got, after >>

\* the caller of the specifications with one caller
Single == "a"

\* One caller calls again and again and may cancel each Call at any point.
NextCancel ==
    \/ \E r \in SeqRequests, flag \in CacheFlags, nc \in BOOLEAN :
           CallBegin(Single, r, flag, nc) /\ ConsumerIdle
    \/ CallFromCache(Single) /\ ConsumerIdle
    \/ CallWaiting(Single) /\ ConsumerIdle
    \/ CallOpen(Single) /\ ConsumerIdle
    \/ \E chunk \in SeqPool : CallRecv(Single, chunk, MaxSeqChunks) /\ ConsumerIdle
    \/ CallRecvError(Single) /\ ConsumerIdle
    \/ CallEOF(Single) /\ ConsumerIdle
    \/ CallFinal(Single) /\ ConsumerIdle
    \/ Return(Single) /\ ConsumerIdle
    \/ Cancel(Single) /\ ConsumerIdle

SpecCancel == Init /\ [][NextCancel]_vars

(***************************************************************************)
(* The status channel with its consumer.  A send  status <- s  completes   *)
(* when the consumer takes s: a step of Call that pushes a status happens  *)
(* only while the consumer is in a receive, and ends that receive.         *)
(***************************************************************************)
\* the step of c pushes a status
Pushes(c) == Len(sink'[c]) > Len(sink[c])

\* status <- s: the rendezvous of the step of c with the consumer
Sync(c) ==
    IF Pushes(c)
    THEN receiving[c] /\ receiving' = [receiving EXCEPT ![c] = FALSE]
    ELSE UNCHANGED receiving

\* the consumer comes back to its receive
Receive(c) ==
    /\ ~receiving[c]
    /\ receiving' = [receiving EXCEPT ![c] = TRUE]
    /\ UNCHANGED << options, client, completionID, cache, writer, pc, arg, id, request,
                    response, partialMessage, result, err, cacheResponse, sink, ext, got,
                    after, seen >>

\* a step of the Call in progress, the stream ending after MaxSeqChunks
\* chunks at the latest
Progress(c) ==
    \/ CallFromCache(c) /\ Sync(c) /\ UNCHANGED seen
    \/ CallWaiting(c) /\ Sync(c) /\ UNCHANGED seen
    \/ CallOpen(c) /\ Sync(c) /\ UNCHANGED seen
    \/ \E chunk \in DrainPool :
           CallRecv(c, chunk, MaxSeqChunks) /\ Sync(c) /\ UNCHANGED seen
    \/ CallRecvError(c) /\ Sync(c) /\ UNCHANGED seen
    \/ CallEOF(c) /\ Sync(c) /\ UNCHANGED seen
    \/ CallFinal(c) /\ Sync(c) /\ UNCHANGED seen

\* One caller calls again and again; its consumer receives from the status
\* channel.
NextDrain ==
    \/ /\ \E r \in SeqRequests, flag \in CacheFlags, nc \in BOOLEAN :
              CallBegin(Single, r, flag, nc)
       /\ Sync(Single)
       /\ UNCHANGED seen
    \/ Progress(Single)
    \/ Return(Single) /\ UNCHANGED << receiving, seen >>
    \/ Receive(Single)

\* The goroutine of Call runs whenever it can take a step (the cache store
\* and the transport respond), and the consumer keeps receiving.
SpecDrain ==
    Init /\ [][NextDrain]_vars /\ WF_vars(Progress(Single)) /\ WF_vars(Receive(Single))

(***************************************************************************)
(* The consumer reading the per-chunk Partial statuses.  Each of them      *)
(* holds &partialMessage, the address of the one variable of Client.call   *)
(* that line 508 assigns at every chunk; the "waiting" status holds a      *)
(* message of its own.                                                     *)
(***************************************************************************)
\* the per-chunk Partial statuses pushed so far
PartialCount(c) ==
    Cardinality({i \in 3..Len(sink[c]) : sink[c][i].PartialResponse # << >>})

\* the message as it was when the status of chunk k was pushed
PushedWith(c, k) == sink[c][k + 2].PartialResponse[1]

\* *status.PartialResponse for the status of chunk k, read now: the variable
\* as it is, or, for a read that ran while line 508 wrote the latest
\* message (a data race), the fields of the message before and after
Deref(c, k) ==
    LET n   == PartialCount(c)
        cur == partialMessage[c]
    IN  {cur} \cup
        (IF k < n
         THEN {[Role |-> a.Role, Content |-> b.Content] :
                   a \in {PushedWith(c, n - 1), cur}, b \in {PushedWith(c, n - 1), cur}}
         ELSE {})

\* the consumer reads the message of the status of chunk k, once
Read(c, k) ==
    /\ pc[c] # "idle"
    /\ k \in 1..PartialCount(c)
    /\ \A e \in seen[c] : e.k # k
    /\ \E msg \in Deref(c, k) : seen' = [seen EXCEPT ![c] = @ \cup {[k |-> k, msg |-> msg]}]
    /\ UNCHANGED << options, client, completionID, cache, writer, pc, arg, id, request,
                    response, partialMessage, result, err, cacheResponse, sink, ext, got,
                    after, receiving >>

\* One Call, its consumer reading the messages of the statuses when it gets
\* to it.
NextRead ==
    \/ \E r \in Requests, flag \in CacheFlags, nc \in BOOLEAN :
           CallBegin(Single, r, flag, nc) /\ ConsumerIdle
    \/ CallFromCache(Single) /\ ConsumerIdle
    \/ CallWaiting(Single) /\ ConsumerIdle
    \/ CallOpen(Single) /\ ConsumerIdle
    \/ \E chunk \in Pool : CallRecv(Single, chunk, MaxChunks) /\ ConsumerIdle
    \/ CallRecvError(Single) /\ ConsumerIdle
    \/ CallEOF(Single) /\ ConsumerIdle
    \/ CallFinal(Single) /\ ConsumerIdle
    \/ \E k \in 1..MaxChunks : Read(Single, k)

SpecRead == Init /\ [][NextRead]_vars

\* One live Call whose stream delivers any sequence of at most MaxFold
\* chunks of FoldPool.
NextFold ==
    \/ \E nc \in BOOLEAN : CallBegin(Single, ReqHi, "unset", nc) /\ ConsumerIdle
    \/ CallFromCache(Single) /\ ConsumerIdle
    \/ CallWaiting(Single) /\ ConsumerIdle
    \/ CallOpen(Single) /\ ConsumerIdle
    \/ \E chunk \in FoldPool : CallRecv(Single, chunk, MaxFold) /\ ConsumerIdle
    \/ CallRecvError(Single) /\ ConsumerIdle
    \/ CallEOF(Single) /\ ConsumerIdle
    \/ CallFinal(Single) /\ ConsumerIdle

SpecFold == Init /\ [][NextFold]_vars

\* One Call with any request of MsgRequests, up to the compiled request it
\* submits.
NextMessages ==
    /\ \E r \in MsgRequests : CallBegin(Single, r, "unset", FALSE)
    /\ ConsumerIdle

SpecMessages == Init /\ [][NextMessages]_vars

(***************************************************************************)
(* Properties                                                              *)
(***************************************************************************)
Range(seq) == {seq[i] : i \in 1..Len(seq)}

Count(x, seq) == Cardinality({i \in 1..Len(seq) : seq[i] = x})

IsFinal(s) == s.Request = << >> /\ s.PartialResponse = << >>

NoFinal(statuses) == \A i \in 1..Len(statuses) : ~IsFinal(statuses[i])

Gets == {"Get.err", "Get.miss", "Get.hit", "Get.bad"}

Opens == {"Open.ok", "Open.err"}

Stores == {"Store.ok", "Store.err"}

\* Call has returned a message
Returned(c) == pc[c] = "done" /\ err[c] = ""

\* Call has returned a message it got from the live stream
ReturnedLive(c) == Returned(c) /\ ~cacheResponse[c]

\* Call has returned a message it got from the cache
ReturnedCached(c) == Returned(c) /\ cacheResponse[c]

\* the context is not no-cache and the request's flag is unset or true
CachingEnabled(a) == ~a.noCache /\ a.req.Cache \in {"unset", "true"}

\* the key Call looks up
KeyOf(c) == cacheKey(client, request[c])

\* the request as the Submitted status carries it: compiled, without a seed
SubmittedRequest(c) == WireRequest(client, arg[c].req)

\* f had returned from the live path, caching enabled, when c was called with
\* the identical context and request, and c has returned too
LaterCall(f, c) ==
    /\ f # c
    /\ f \in after[c]
    /\ ReturnedLive(f)
    /\ CachingEnabled(arg[f])
    /\ pc[c] = "done"
    /\ arg[c] = arg[f]

\* C1 as stated: a later identical Call returns the first Call's message and
\* opens no transport stream (a Call that the cache store fails is left aside).
C1_SecondCallRepeatsFirst ==
    \A f, c \in Callers :
        (LaterCall(f, c) /\ err[c] \notin {"cacheGet", "decode"}) =>
            /\ err[c] = ""
            /\ result[c] = result[f]
            /\ Range(ext[c]) \cap Opens = {}

\* C1 amended: a later identical Call opens no transport stream; it fails
\* with the cache store's read or decode error or returns the fold of the
\* entry it reads, which is the first Call's message whenever that entry is
\* the one the first Call stored (a live Call in between may have stored
\* another one under the key).
C1_SecondCallServedFromCache ==
    \A f, c \in Callers :
        LaterCall(f, c) =>
            /\ Range(ext[c]) \cap Opens = {}
            /\ err[c] \in {"", "cacheGet", "decode"}
            /\ err[c] = "" => cacheResponse[c]
            /\ (err[c] = "" /\ got[c].id = id[f]) => result[c] = result[f]

C1_Witness ==
    \E f, c \in Callers :
        /\ LaterCall(f, c)
        /\ Returned(c)
        /\ got[c].id = id[f]
        /\ Len(response[f]) >= 1
        /\ result[c] = result[f]

\* C2: a successful live Call that received n chunks has pushed Submitted,
\* the "waiting" Partial, one Partial per chunk in receive order (each with
\* the fold of the chunks received up to it) and one Final with cached =
\* false, and nothing else.
C2_LiveStatusSequence ==
    \A c \in Callers :
        ReturnedLive(c) =>
            LET n == Len(response[c])
            IN  /\ Len(sink[c]) = n + 3
                /\ sink[c][1] = Submitted(id[c], SubmittedRequest(c))
                /\ sink[c][2] = Partial(id[c], Waiting)
                /\ \A k \in 1..n :
                       sink[c][2 + k] =
                           Partial(id[c], FoldAll(SubSeq(response[c], 1, k)))
                /\ sink[c][n + 3] = FinalStatus(id[c], response[c], result[c], FALSE)

C2_Witness ==
    \E c \in Callers :
        /\ ReturnedLive(c)
        /\ Len(response[c]) = 2
        /\ Len(sink[c]) = 5

\* C3: a Call served from the cache has pushed Submitted and then one Final
\* with cached = true, carrying the stored chunk sequence and its fold (with
\* the ids backfilled); it pushed no Partial and opened no stream.
C3_CachedStatusSequence ==
    \A c \in Callers :
        ReturnedCached(c) =>
            /\ sink[c] = << Submitted(id[c], SubmittedRequest(c)),
                            FinalStatus(id[c], got[c].chunks,
                                        Backfill(FoldAll(got[c].chunks)), TRUE) >>
            /\ result[c] = Backfill(FoldAll(got[c].chunks))
            /\ ext[c] = << "Get.hit" >>

C3_Witness ==
    \E c \in Callers :
        /\ ReturnedCached(c)
        /\ Len(got[c].chunks) >= 1
        /\ Len(sink[c]) = 2

\* the live stream of c has failed
StreamFailed(c) == pc[c] = "done" /\ err[c] \in {"open", "recv"}

C4_Failed ==
    \A c \in Callers :
        StreamFailed(c) =>
            /\ NoFinal(sink[c])
            /\ Range(ext[c]) \cap Stores = {}
            /\ Count("Open.ok", ext[c]) + Count("Open.err", ext[c]) = 1

C4_Failing ==
    \A c \in Callers :
        (pc[c] # "done" /\ pc'[c] = "done" /\ err'[c] \in {"open", "recv"})
            => cache' = cache

\* C4: when the stream cannot be opened or a receive fails, Call returns
\* that error, leaves the cache store as it is, pushes no Final and opens no
\* second stream.
C4_StreamErrorStoresNothing == []C4_Failed /\ [][C4_Failing]_vars

C4_Witness ==
    \E c \in Callers :
        /\ StreamFailed(c)
        /\ err[c] = "recv"
        /\ Len(sink[c]) = 4

\* C5 as stated: whenever a live Call has its message (before the Final is
\* pushed and at return), its chunk sequence is in the store under its key.
C5_StoredAtReturn ==
    \A c \in Callers :
        (pc[c] \in {"final", "done"} /\ err[c] = "" /\ ~cacheResponse[c]) =>
            /\ KeyOf(c) \in DOMAIN cache
            /\ Decode(cache[KeyOf(c)]) = [ok |-> TRUE, result |-> response[c]]

C5_Stored ==
    \A c \in Callers :
        (pc[c] \in {"final", "done"} /\ err[c] = "" /\ ~cacheResponse[c]) =>
            IF arg[c].noCache
            THEN Range(ext[c]) \cap Stores = {}
            ELSE /\ ext[c][Len(ext[c])] = "Store.ok"
                 /\ KeyOf(c) \in DOMAIN cache
                 /\ writer[KeyOf(c)].id = id[c] =>
                        Decode(cache[KeyOf(c)]) = [ok |-> TRUE, result |-> response[c]]

C5_Storing ==
    \A c \in Callers :
        (pc[c] = "recv" /\ pc'[c] = "final" /\ ~arg[c].noCache) =>
            /\ KeyOf(c) \in DOMAIN cache'
            /\ Decode(cache'[KeyOf(c)]) = [ok |-> TRUE, result |-> response'[c]]

\* C5 amended: a live Call whose context is not no-cache stores its whole
\* chunk sequence under its key when the stream ends, before the Final is
\* pushed, and the entry holds that sequence at return unless another live
\* Call has stored under the key since; with a no-cache context the Call
\* stores nothing.
C5_StoredUnlessNoCache == []C5_Stored /\ [][C5_Storing]_vars

C5_Witness ==
    \E c \in Callers :
        /\ ReturnedLive(c)
        /\ ~arg[c].noCache
        /\ Len(response[c]) >= 1
        /\ writer[KeyOf(c)].id = id[c]
        /\ Decode(cache[KeyOf(c)]).result = response[c]

\* C6 as stated: once a key has been stored, no Call stores under it again.
C6_WrittenOnce == [][\A k \in DOMAIN writer : writer'[k] = writer[k]]_vars

C6_Reader ==
    \A c \in Callers : cacheResponse[c] => Range(ext[c]) \cap Stores = {}

C6_Writing ==
    /\ DOMAIN cache \subseteq DOMAIN cache'
    /\ DOMAIN writer' = DOMAIN cache'
    /\ \A k \in DOMAIN cache' :
           (k \notin DOMAIN cache \/ cache'[k] # cache[k] \/ writer'[k] # writer[k]) =>
               \E c \in Callers :
                   /\ pc[c] = "recv" /\ pc'[c] = "final"
                   /\ ~cacheResponse[c]
                   /\ ~arg[c].noCache
                   /\ k = KeyOf(c)
                   /\ arg[c].req.Cache = "false" \/ "Get.miss" \in Range(ext[c])
                   /\ Decode(cache'[k]) = [ok |-> TRUE, result |-> response[c]]

\* C6 amended: an entry is never removed or changed in part, and a Call that
\* was served from the cache never writes; a key is written, whole, only by
\* a Call at the end of its successful live stream, also when the key is
\* already stored: by a Call whose request sets the cache flag to false, or
\* by one that had looked the key up before the earlier store.
C6_WrittenOnlyByLiveCalls == []C6_Reader /\ [][C6_Writing]_vars

\* a key has been stored twice, and read
C6_Witness ==
    \E c, d \in Callers :
        /\ c # d
        /\ ReturnedLive(c) /\ ReturnedLive(d)
        /\ KeyOf(c) = KeyOf(d)
        /\ "Store.ok" \in Range(ext[c]) /\ "Store.ok" \in Range(ext[d])
        /\ response[c] # response[d]
        /\ writer[KeyOf(c)].id = id[d]

\* caching is off for the call: a no-cache context or the cache flag false
CachingDisabled(a) == a.noCache \/ a.req.Cache = "false"

\* C7: with a no-cache context or the request's cache flag false, Call does
\* no cache Get and takes the live path, its Final carrying cached = false,
\* whatever the store holds.
C7_NoLookupWhenDisabled ==
    \A c \in Callers :
        (pc[c] # "idle" /\ CachingDisabled(arg[c])) =>
            /\ Range(ext[c]) \cap Gets = {}
            /\ ~cacheResponse[c]
            /\ Returned(c) =>
                   /\ "Open.ok" \in Range(ext[c])
                   /\ IsFinal(sink[c][Len(sink[c])])
                   /\ ~sink[c][Len(sink[c])].Cached

\* the entry was there before the call began
C7_Witness ==
    \E c, d \in Callers :
        /\ Returned(c)
        /\ arg[c].req.Cache = "false"
        /\ ~arg[c].noCache
        /\ d \in after[c]
        /\ "Store.ok" \in Range(ext[d])
        /\ KeyOf(d) = KeyOf(c)

\* C8: when cache Get fails or the stored value does not decode, Call
\* returns that error without opening a stream; when cache Store fails after
\* the stream was received to its end, Call returns that error; no Final is
\* pushed in either case.
C8_CacheErrorFailsCall ==
    \A c \in Callers :
        /\ "Get.err" \in Range(ext[c]) =>
               /\ pc[c] = "done" /\ err[c] = "cacheGet"
               /\ ext[c] = << "Get.err" >>
               /\ sink[c] = << Submitted(id[c], SubmittedRequest(c)) >>
        /\ "Get.bad" \in Range(ext[c]) =>
               /\ pc[c] = "done" /\ err[c] = "decode"
               /\ ext[c] = << "Get.bad" >>
               /\ sink[c] = << Submitted(id[c], SubmittedRequest(c)) >>
        /\ "Store.err" \in Range(ext[c]) =>
               /\ pc[c] = "done" /\ err[c] = "cacheStore"
               /\ ext[c][Len(ext[c])] = "Store.err"
               /\ Count("Open.ok", ext[c]) = 1
               /\ NoFinal(sink[c])

C8_Witness ==
    \E c, d \in Callers :
        /\ err[c] = "cacheGet"
        /\ err[d] = "cacheStore"
        /\ Len(sink[d]) = 4

\* the client has neither API key nor base URL
NoCredentials == options.APIKey = "" /\ options.BaseURL = ""

\* the Call of c cannot be submitted
Rejected(c) ==
    /\ pc[c] # "idle"
    /\ NoCredentials \/ Len(toMessages(arg[c].req)) = 0

C9_Rejected ==
    \A c \in Callers :
        Rejected(c) =>
            /\ pc[c] = "done"
            /\ err[c] = IF NoCredentials THEN "auth" ELSE "malformed"
            /\ sink[c] = << >>
            /\ ext[c] = << >>
            /\ id[c] = ""

C9_Rejecting ==
    \A c \in Callers :
        (pc[c] = "idle" /\ pc'[c] = "done") =>
            /\ completionID' = completionID
            /\ cache' = cache

\* C9: a Call on a client without API key and base URL, or whose compiled
\* message list is empty, returns an error and has pushed no status, taken
\* no transaction id, done no cache Get or Store and opened no stream.
C9_RejectedCallHasNoEffect == []C9_Rejected /\ [][C9_Rejecting]_vars

C9_Witness ==
    \E c, d \in Callers :
        /\ err[c] = "malformed"
        /\ pc[d] = "done" /\ err[d] = ""
        /\ completionID = 1

\* the tool-call fragments of a chunk sequence, in order
RECURSIVE Fragments(_)
Fragments(chunks) ==
    IF chunks = << >> THEN << >>
    ELSE (IF Len(Head(chunks).Choices) = 0 THEN << >>
          ELSE Head(chunks).Choices[1].Delta.ToolCalls) \o Fragments(Tail(chunks))

\* the fragments that are for position i of the content list
FragmentsFor(chunks, i) ==
    LET For(frag) == (IF frag.Index = NoIndex THEN 0 ELSE frag.Index) = i
    IN  SelectSeq(Fragments(chunks), For)

RECURSIVE Names(_)
Names(frags) == IF frags = << >> THEN "" ELSE Head(frags).Name \o Names(Tail(frags))

RECURSIVE Arguments(_)
Arguments(frags) ==
    IF frags = << >> THEN "" ELSE Head(frags).Arguments \o Arguments(Tail(frags))

SuppliedIDs(frags) == LET Has(frag) == frag.ID # "" IN SelectSeq(frags, Has)

\* C10: in the message a successful Call returns, from the stream or from
\* the cache, and in its Final status, every tool call has an id: the one
\* the chunks supplied for it, or else "call_" and the digest of its whole
\* function name and arguments.
C10_ToolCallIDs ==
    \A c \in Callers :
        Returned(c) =>
            /\ sink[c][Len(sink[c])].Response = result[c]
            /\ \A i \in 1..Len(result[c].Content) :
                   LET part  == result[c].Content[i]
                       frags == FragmentsFor(response[c], i - 1)
                       ids   == SuppliedIDs(frags)
                   IN  part.HasToolCall =>
                           /\ part.ToolCall.ID # ""
                           /\ part.ToolCall.ID =
                                  IF ids # << >> THEN ids[Len(ids)].ID
                                  ELSE "call_" \o HashID8(Names(frags), Arguments(frags))

C10_Witness ==
    \E c \in Callers : \E i, j \in 1..Len(result[c].Content) :
        /\ ReturnedCached(c)
        /\ result[c].Content[i].HasToolCall
        /\ result[c].Content[i].ToolCall.ID = "id1"
        /\ result[c].Content[j].HasToolCall
        /\ result[c].Content[j].ToolCall.ID = "call_" \o HashID8("ff", "{{")

\* Call of c was submitted: it has drawn its transaction id
HasID(c) == pc[c] # "idle" /\ id[c] # ""

\* C11: every status one Call has pushed carries that Call's transaction id,
\* and two Calls of the process, also two that run at the same time, have
\* different transaction ids.
C11_TransactionIDs ==
    /\ \A c \in Callers : \A i \in 1..Len(sink[c]) : sink[c][i].CompletionID = id[c]
    /\ \A c \in Callers : sink[c] # << >> => id[c] # ""
    /\ \A c, d \in Callers : (c # d /\ HasID(c) /\ HasID(d)) => id[c] # id[d]

\* two Calls in their live streams at the same time, statuses pushed by both
C11_Witness ==
    \E c, d \in Callers :
        /\ c # d
        /\ pc[c] = "recv" /\ pc[d] = "recv"
        /\ Len(sink[c]) >= 3 /\ Len(sink[d]) >= 3

\* the cache read or the live stream read of c's Call is not finished
Reading(c) == pc[c] \in {"fromCache", "call", "open", "recv"}

\* C12 as stated: a Call whose ctx is cancelled before its cache read or its
\* live stream read has finished does not go on to fold a response and push
\* Final: it returns an error.
C12_CancelAborts ==
    [][\A c \in Callers :
           (arg[c].cancelled /\ Reading(c)) => pc'[c] \in {"call", "open", "recv", "done"}
                                                /\ (pc'[c] = "done" => err'[c] # "")]_vars

\* a Call that returned a message pushed Final as its last status
C13_LastPushed ==
    Returned(Single) =>
        /\ sink[Single] # << >>
        /\ IsFinal(sink[Single][Len(sink[Single])])

\* nothing is pushed once Call has returned
C13_Quiet == pc[Single] = "done" => (sink'[Single] = sink[Single] \/ pc'[Single] = "idle")

\* C13: with a consumer that keeps receiving and a cache store and a
\* transport that respond, a Call that was entered returns, and all its
\* statuses are pushed by then.
C13_Terminates ==
    /\ []C13_LastPushed
    /\ [][C13_Quiet]_vars
    /\ (pc[Single] # "idle") ~> (pc[Single] = "done")

\* a live Call has returned, every status taken by the consumer
C13_Witness ==
    /\ ReturnedLive(Single)
    /\ Len(response[Single]) = 1
    /\ Len(sink[Single]) = 4

\* C14 as stated: what the consumer reads from the Partial status of chunk k
\* is the fold of the first k chunks received, whenever it reads it.
C14_PartialIsFoldSoFar ==
    \A c \in Callers : \A e \in seen[c] :
        Len(response[c]) >= e.k => e.msg = FoldAll(SubSeq(response[c], 1, e.k))

\* the message of the last status pushed before Final
LastPartial(c) == sink[c][Len(sink[c]) - 1].PartialResponse[1]

\* C15: the one-pass fold of the chunks a live Call received, which its Final
\* carries with the ids backfilled, is the message the stream loop
\* accumulated chunk by chunk and pushed with the last per-chunk Partial.
C15_FoldIsAccumulation ==
    \A c \in Callers :
        /\ pc[c] \in {"recv", "final"} => FoldAll(response[c]) = partialMessage[c]
        /\ ReturnedLive(c) =>
               /\ FoldAll(response[c]) = partialMessage[c]
               /\ result[c] = Backfill(partialMessage[c])
               /\ sink[c][Len(sink[c])].Response = Backfill(partialMessage[c])
               /\ Len(response[c]) >= 1 => LastPartial(c) = FoldAll(response[c])

\* three different chunks, text and tool-call fragments among them
C15_Witness ==
    /\ ReturnedLive(Single)
    /\ response[Single] = << ChunkTool, ChunkText, ChunkToolID >>
    /\ LastPartial(Single) = FoldAll(response[Single])

\* the part holds free text or a tool call, not both
Exclusive(part) == ~(part.Text # "" /\ part.HasToolCall)

\* C16 as stated: whatever deltas appendMessage has folded from the empty
\* message, no part of the accumulated message holds both text and a tool
\* call.
C16_PartsExclusive ==
    \A c \in Callers : \A i \in 1..Len(partialMessage[c].Content) :
        Exclusive(partialMessage[c].Content[i])

\* the texts of the deltas of a chunk sequence, in arrival order
RECURSIVE DeltaTexts(_)
DeltaTexts(chunks) ==
    IF chunks = << >> THEN ""
    ELSE (IF Len(Head(chunks).Choices) = 0 THEN ""
          ELSE Head(chunks).Choices[1].Delta.Content) \o DeltaTexts(Tail(chunks))

\* C17 as stated: the accumulated message has at most one part without a
\* tool call, and the text of that part is all the delta texts received, in
\* arrival order.
C17_TextInOnePart ==
    \A c \in Callers :
        pc[c] \in {"recv", "final"} =>
            LET content == partialMessage[c].Content
            IN  /\ Cardinality(TextSlots(content)) <= 1
                /\ \A i \in TextSlots(content) :
                       content[i].Text = DeltaTexts(response[c])

\* an empty tool-call placeholder for position i (counted from 0)
Placeholder(i) == ToolPart([ZeroToolCall EXCEPT !.Index = i])

\* new is old after the one fragment frag: placeholders up to its position,
\* the fragment applied to its slot, the other slots as they were
FragmentApplied(old, frag, new) ==
    LET i    == IF frag.Index = NoIndex THEN 0 ELSE frag.Index
        base == IF i + 1 <= Len(old) THEN old[i + 1] ELSE Placeholder(i)
        tc   == IF base.HasToolCall THEN base.ToolCall ELSE ZeroToolCall
    IN  /\ Len(new) = (IF Len(old) >= i + 1 THEN Len(old) ELSE i + 1)
        /\ \A j \in 1..Len(old) : j # i + 1 => new[j] = old[j]
        /\ \A j \in (Len(old) + 1)..i : new[j] = Placeholder(j - 1)
        /\ new[i + 1].HasToolCall
        /\ new[i + 1].Text = base.Text
        /\ new[i + 1].ToolCall.ID = (IF frag.ID # "" THEN frag.ID ELSE tc.ID)
        /\ new[i + 1].ToolCall.Name = tc.Name \o frag.Name
        /\ new[i + 1].ToolCall.Arguments = tc.Arguments \o frag.Arguments

\* the chunk is one delta of one tool-call fragment and no text
OneFragment(chunk) ==
    /\ Len(chunk.Choices) = 1
    /\ Len(chunk.Choices[1].Delta.ToolCalls) = 1
    /\ chunk.Choices[1].Delta.Content = ""

C18_Folding ==
    \A c \in Callers :
        (pc[c] = "recv" /\ Len(response'[c]) = Len(response[c]) + 1) =>
            LET chunk == response'[c][Len(response'[c])]
            IN  OneFragment(chunk) =>
                    FragmentApplied(partialMessage[c].Content,
                                    chunk.Choices[1].Delta.ToolCalls[1],
                                    partialMessage'[c].Content)

\* C18: a fragment for index i first gets empty tool-call placeholders
\* appended, each with its own position as index, until position i exists;
\* then it changes slot i only: its id replaces the slot's id if it is not
\* empty, its name and arguments are appended to the slot's.
C18_GapFilling == [][C18_Folding]_vars

\* a fragment for position 2 arrived second: a placeholder was made for
\* position 1, and the fragment for position 1 was then added to it
C18_Witness ==
    /\ pc[Single] = "recv"
    /\ response[Single] = << ChunkTool, ChunkGap, ChunkToolID >>
    /\ Len(partialMessage[Single].Content) = 3
    /\ partialMessage[Single].Content[2].ToolCall = Frag(1, "id1", "g", "")
    /\ partialMessage[Single].Content[3].ToolCall = Frag(2, "", "h", "")

\* the system message at position i stays in place with role user
Demoted(ms, i) ==
    /\ ms[i].Role = "system"
    /\ \/ i = Len(ms)
       \/ ms[i + 1].Role \notin {"system", "user"}

\* the system message at position i is merged into the leading system message
Merged(ms, i) == ms[i].Role = "system" /\ ~Demoted(ms, i)

\* the positions of ms that satisfy P, in order
Positions(ms, P(_, _)) ==
    SelectSeq([i \in 1..Len(ms) |-> i], LAMBDA i : P(ms, i))

InPlace(ms, i) == ~Merged(ms, i)

\* the text of a message: its first content part, nothing without one
TextOf(m) == IF Len(m.Content) = 0 THEN "" ELSE m.Content[1].Text

\* the list the system-message rule describes for the request
SystemCompiled(req) ==
    LET ms      == req.Messages
        merged  == Positions(ms, Merged)
        inPlace == Positions(ms, InPlace)
        prompts == FirstPrompts(req)
                   \o [k \in 1..Len(merged) |-> TextOf(ms[merged[k]])]
        rest    == [k \in 1..Len(inPlace) |->
                       IF Demoted(ms, inPlace[k])
                       THEN [ms[inPlace[k]] EXCEPT !.Role = "user"]
                       ELSE ms[inPlace[k]]]
    IN  IF prompts = << >> THEN rest
        ELSE << InMessage("system", Text(Join(prompts, "\n"))) >> \o rest

\* C19: every Call of a client with credentials compiles its messages: a
\* system message that is last, or whose successor is neither system nor
\* user, stays in its relative position with role user; the texts of the
\* other system messages are newline-joined in input order into one system
\* message at position 0; no system message is compiled after position 0.
C19_SystemCompilation ==
    \A c \in Callers :
        (pc[c] # "idle" /\ ~NoCredentials) =>
            /\ pc[c] # "panic"
            /\ pc[c] = "fromCache" =>
                   /\ request[c].Messages = ToChatAll(SystemCompiled(arg[c].req))
                   /\ \A k \in 2..Len(request[c].Messages) :
                          request[c].Messages[k].Role # "system"

\* the whole content of the message is one text part, "." or "{}"
SoleSentinel(m) ==
    /\ Len(m.Content) = 1
    /\ ~m.Content[1].HasToolCall
    /\ m.Content[1].Text \in {".", "{}"}

Present(m) == ~SoleSentinel(m)

\* the wire messages of every message of msgs but the sole sentinels
WithoutSentinels(msgs) ==
    LET kept == SelectSeq(msgs, Present)
    IN  [k \in 1..Len(kept) |-> Collapse(ToChat(kept[k]))]

\* C20: of the messages left by the system-message rule, exactly those whose
\* whole content is a single text part "." or "{}" are missing from the
\* compiled list; every other one, a message with a tool-call part among
\* them, is compiled in its place (a Call with nothing left is malformed).
C20_SentinelCollapse ==
    \A c \in Callers :
        (pc[c] \notin {"idle", "panic"} /\ ~NoCredentials) =>
            LET compiled == WithoutSentinels(InsertSystem(arg[c].req))
            IN  IF pc[c] = "done"
                THEN err[c] = "malformed" /\ compiled = << >>
                ELSE request[c].Messages = compiled

\* C21: a Call made after an identical Call (same context, same request,
\* caching enabled) that returned from the live path on a Client of the same
\* identity and cache store looks up the key the earlier Call stored under,
\* whether or not the two Clients set the seed, and so does not miss the
\* cache and opens no stream.
C21_SeedNotInKey ==
    \A f, c \in Callers :
        LaterCall(f, c) =>
            /\ KeyOf(c) = KeyOf(f)
            /\ "Get.miss" \notin Range(ext[c])
            /\ Range(ext[c]) \cap Opens = {}
====
